---- MODULE Spec2Model ----
(***************************************************************************)
(* Daily Sales Tracker (src/App.tsx): the App component as a state machine. *)
(*                                                                         *)
(* State: the React state of App (transactions, productName, quantity,     *)
(* price), the value cached by useMemo, the localStorage slot 'dailySales', *)
(* the wall clock, and the position of the component (an effect pending,   *)
(* idle, or unmounted by an exception thrown while rendering).             *)
(*                                                                         *)
(* Time is counted in ticks, TicksPerDay ticks to a local day; tick 0 is   *)
(* local midnight of a Thursday (as 1970-01-01 was).                       *)
(***************************************************************************)
EXTENDS Integers, Sequences, FiniteSets

VARIABLES
    clock,         \* the wall clock: what Date.now() / new Date() read
    elapsed,       \* ticks the clock advanced since startup (bounds the run)
    storage,       \* the content of the localStorage slot 'dailySales'
    transactions,  \* useState: the ledger, a JS value (an array when well-formed)
    productName,   \* useState: the name field (a string, as a sequence of characters)
    quantity,      \* useState: number | ''
    price,         \* useState: number | ''
    memo,          \* the value useMemo cached at its last computation
    nextId,        \* how many ids crypto.randomUUID() has handed out
    pc,            \* "effect": the persist effect is pending; "idle"; "crashed"
    lastWrite,     \* outcome of the latest localStorage.setItem: "none" | "ok" | "failed"
    failures,      \* how many setItem calls threw (each logged by console.error)
    handled        \* the ledger command the latest step handled: "mount" | "submit" |
                   \* "delete" | "clear" | "clearDeclined", or "none" for any other step

vars == <<clock, elapsed, storage, transactions, productName, quantity, price,
          memo, nextId, pc, lastWrite, failures, handled>>

----------------------------------------------------------------------------
(* Bounds of the model *)

MaxElapsed == 1      \* ticks the clock may advance during a run
MaxAdds == 2         \* records a run may create
MaxFailures == 1     \* writes to the slot that may fail during a run

(* Scale of the clock *)
TicksPerDay == 2
DaysPerWeek == 7

(* Program constants *)
WEEKLY_TARGET == 9000000
DefaultQuantity == 1
MinQuantity == 1
MinPrice == 0
SaturdayIndex == 6
ThursdayIndex == 4

(* Date: the weekday of tick 0 (1970-01-01 was a Thursday) *)
EpochWeekday == 4

----------------------------------------------------------------------------
(* JavaScript values *)

\* number | '' : the two number fields of the form
EmptyStr == [k |-> "empty"]
NaN == [k |-> "NaN"]
Num(n) == [k |-> "num", n |-> n]

\* Number(v): '' converts to 0, a number to itself
Number(v) == IF v.k = "empty" THEN Num(0) ELSE v

\* (mutation of GreaterThanZero: >= in place of >)
GreaterOrEqualZero(v) == v.k = "num" /\ v.n >= 0

\* a > 0 on JS numbers: every comparison with NaN is false
GreaterThanZero(v) == v.k = "num" /\ v.n > 0

\* Math.max(a, b): NaN if either argument is NaN
MathMax(a, b) ==
    IF a.k = "NaN" \/ b.k = "NaN" THEN NaN
    ELSE IF a.n >= b.n THEN a ELSE b

\* parseInt(text, 10) on the text of a number field: an integer literal parses
\* to its value, any other text to NaN
ParseInt(text) == IF text.k = "digits" THEN Num(text.n) ELSE NaN

\* String.prototype.trim on a sequence of characters
RECURSIVE TrimStart(_)
TrimStart(s) ==
    IF s # <<>> /\ Head(s) = " " THEN TrimStart(Tail(s)) ELSE s

RECURSIVE TrimEnd(_)
TrimEnd(s) ==
    IF s # <<>> /\ s[Len(s)] = " " THEN TrimEnd(SubSeq(s, 1, Len(s) - 1)) ELSE s

Trim(s) == TrimEnd(TrimStart(s))

\* a string is truthy iff it is not empty
Truthy(s) == s # <<>>

\* the value of `transactions`: an array, or what JSON.parse gave instead
Arr(items) == [t |-> "array", items |-> items]
JsNull == [t |-> "null"]
JsNumber(n) == [t |-> "number", n |-> n]
JsObject == [t |-> "object"]

IsTransaction(e) == "timestamp" \in DOMAIN e

----------------------------------------------------------------------------
(* The localStorage slot and JSON *)

Absent == [k |-> "absent"]          \* getItem returns null
EmptyText == [k |-> "text", body |-> "empty"]      \* the empty string
Garbage == [k |-> "text", body |-> "garbage"]      \* text that is not JSON
JsonText(doc) == [k |-> "text", body |-> "json", doc |-> doc]

JNull == [j |-> "null"]
JNum(n) == [j |-> "number", n |-> n]
JStr(s) == [j |-> "string", s |-> s]
JArr(elems) == [j |-> "array", elems |-> elems]
JObj(members) == [j |-> "object", members |-> members]

\* (mutation of StringifyElement: quantity and price written under each other's key)
StringifyElementSwapped(e) ==
    IF IsTransaction(e)
    THEN JObj(<< <<"id", JNum(e.id)>>,
                 <<"name", JStr(e.name)>>,
                 <<"quantity", JNum(e.price)>>,
                 <<"price", JNum(e.quantity)>>,
                 <<"timestamp", JNum(e.timestamp)>> >>)
    ELSE JNull

\* JSON.stringify of one element of the ledger
StringifyElement(e) ==
    IF IsTransaction(e)
    THEN JObj(<< <<"id", JNum(e.id)>>,
                 <<"name", JStr(e.name)>>,
                 <<"quantity", JNum(e.quantity)>>,
                 <<"price", JNum(e.price)>>,
                 <<"timestamp", JNum(e.timestamp)>> >>)
    ELSE JNull

\* JSON.stringify(transactions)
Stringify(v) ==
    CASE v.t = "array" -> JsonText(JArr([i \in 1..Len(v.items) |-> StringifyElement(v.items[i])]))
      [] v.t = "null" -> JsonText(JNull)
      [] v.t = "number" -> JsonText(JNum(v.n))
      [] v.t = "object" -> JsonText(JObj(<<>>))

\* the value of a scalar JSON member
ScalarOf(d) == IF d.j = "string" THEN d.s ELSE d.n

\* JSON.parse of one element of an array: an object becomes a record of its
\* members, null stays null
ParseElement(d) ==
    IF d.j = "object"
    THEN LET keys == {d.members[i][1] : i \in 1..Len(d.members)}
             At(key) == CHOOSE i \in 1..Len(d.members) :
                            /\ d.members[i][1] = key
                            /\ \A j \in (i + 1)..Len(d.members) : d.members[j][1] # key
         IN [key \in keys |-> ScalarOf(d.members[At(key)][2])]
    ELSE JsNull

\* JSON.parse of a document
Parse(d) ==
    CASE d.j = "array" -> Arr([i \in 1..Len(d.elems) |-> ParseElement(d.elems[i])])
      [] d.j = "null" -> JsNull
      [] d.j = "number" -> JsNumber(d.n)
      [] d.j = "object" -> JsObject

\* useState initializer: saved ? JSON.parse(saved) : [], and [] when parse throws
Load(slot) ==
    IF slot.k = "absent" \/ slot.body = "empty" THEN Arr(<<>>)
    ELSE IF slot.body = "garbage" THEN Arr(<<>>)
    ELSE Parse(slot.doc)

----------------------------------------------------------------------------
(* Dates *)

\* Date.prototype.getDay: Sun=0 .. Sat=6; tick 0 falls on a Thursday
GetDay(t) == ((t \div TicksPerDay) + EpochWeekday) % DaysPerWeek

\* setHours(0, 0, 0, 0): local midnight of the day of t
StartOfDay(t) == t - (t % TicksPerDay)

\* setDate(getDate() - n): the same time of day, n days earlier
DaysBefore(t, n) == t - n * TicksPerDay

\* (mutation of Offset: a week starting on Sunday)
OffsetFromSunday(todayDay) == IF todayDay < SaturdayIndex THEN todayDay ELSE todayDay - SaturdayIndex

\* offset back to the start of the custom week
Offset(todayDay) == IF todayDay < SaturdayIndex THEN todayDay + 1 ELSE todayDay - SaturdayIndex

StartOfWeek(now) == StartOfDay(DaysBefore(now, Offset(GetDay(now))))

----------------------------------------------------------------------------
(* Aggregation (useMemo) *)

\* (mutation of FilterFrom: > in place of >=)
FilterAfter(items, from) ==
    LET Test(x) == x.timestamp > from IN SelectSeq(items, Test)

FilterFrom(items, from) ==
    LET Test(x) == x.timestamp >= from IN SelectSeq(items, Test)

FilterBefore(items, before) ==
    LET Test(x) == x.timestamp < before IN SelectSeq(items, Test)

FilterNotId(items, id) ==
    LET Test(x) == x.id # id IN SelectSeq(items, Test)

RECURSIVE SumSales(_)
SumSales(items) ==
    IF items = <<>> THEN 0
    ELSE Head(items).quantity * Head(items).price + SumSales(Tail(items))

RECURSIVE SumItems(_)
SumItems(items) ==
    IF items = <<>> THEN 0
    ELSE Head(items).quantity + SumItems(Tail(items))

\* (mutation of ShouldShowWarning: <= in place of <)
ShouldShowWarningAtTarget(todayDay, weekSales) ==
    todayDay = ThursdayIndex /\ weekSales <= WEEKLY_TARGET

ShouldShowWarning(todayDay, weekSales) ==
    todayDay = ThursdayIndex /\ weekSales < WEEKLY_TARGET

\* the useMemo callback: `now` is what new Date() read first, `today` what the
\* second new Date() (startOfToday) read
Aggregate(tr, now, today) ==
    LET todayDay == GetDay(now)
        startOfToday == StartOfDay(today)
        startOfWeek == StartOfWeek(now)
        weeklyTransactions == FilterFrom(tr.items, startOfWeek)
        dailyTransactions == FilterFrom(weeklyTransactions, startOfToday)
        weekSales == SumSales(weeklyTransactions)
    IN [rendered |-> TRUE,
        now |-> now,
        todayDay |-> todayDay,
        offset |-> Offset(todayDay),
        startOfToday |-> startOfToday,
        startOfWeek |-> startOfWeek,
        weeklyTransactions |-> weeklyTransactions,
        totalSalesToday |-> SumSales(dailyTransactions),
        totalItemsToday |-> SumItems(dailyTransactions),
        totalSalesThisWeek |-> weekSales,
        showWarning |-> ShouldShowWarning(todayDay, weekSales),
        transactionsToday |-> dailyTransactions]

\* nothing was rendered: the render threw
Unrendered == [rendered |-> FALSE]

\* transactions.filter(t => t.timestamp >= ...) throws a TypeError when
\* transactions has no filter method or an element is null
RenderThrows(tr) ==
    \/ tr.t # "array"
    \/ \E i \in 1..Len(tr.items) : ~IsTransaction(tr.items[i])

----------------------------------------------------------------------------
(* Inputs *)

Digits(n) == [k |-> "digits", n |-> n]
NoText == [k |-> "none"]
Junk == [k |-> "junk"]

\* what is typed into the form under Spec: one sale
NameTexts == {<<" ", "a", " ">>}
QuantityTexts == {Digits(0)}
PriceTexts == {Digits(4500000)}

\* what is typed into the form under FormSpec
FormNameTexts == {<<>>, <<" ">>, <<" ", "a", " ">>}
FormQuantityTexts == {NoText, Digits(0), Junk}
FormPriceTexts == {NoText, Digits(-1), Digits(0), Digits(4500000)}

\* the instants, of one local week, at which the page may be opened
BootClocks == (DaysPerWeek * TicksPerDay)..(2 * DaysPerWeek * TicksPerDay - 1)

\* a ledger an earlier session persisted: one sale, a day and a tick ago
BootLedger(now) ==
    Arr(<< [id |-> 101, name |-> <<"b">>, quantity |-> 2, price |-> 18000, timestamp |-> now - TicksPerDay - 1] >>)

\* what the slot may hold when the page is opened
BootSlots(now) ==
    {Absent, EmptyText, Garbage,
     JsonText(JNull), JsonText(JNum(5)), JsonText(JObj(<<>>)), JsonText(JArr(<<JNull>>)),
     Stringify(Arr(<<>>)), Stringify(BootLedger(now))}

\* under FormSpec the page is opened late on a Thursday, on no ledger or on a persisted one
FormBootClocks == {DaysPerWeek * TicksPerDay + 1}
FormBootSlots(now) == {Absent, Stringify(BootLedger(now))}

----------------------------------------------------------------------------
(* Startup: the first render of App *)

Boot(now, slot) ==
        /\ clock = now
        /\ elapsed = 0
        /\ storage = slot
        /\ transactions = Load(slot)
        /\ productName = <<>>
        /\ quantity = Num(DefaultQuantity)
        /\ price = EmptyStr
        /\ nextId = 0
        /\ lastWrite = "none"
        /\ failures = 0
        /\ handled = "mount"
        /\ IF RenderThrows(Load(slot))
           THEN memo = Unrendered /\ pc = "crashed"
           ELSE memo = Aggregate(Load(slot), now, now) /\ pc = "effect"

Init == \E now \in BootClocks : \E slot \in BootSlots(now) : Boot(now, slot)

FormInit == \E now \in FormBootClocks : \E slot \in FormBootSlots(now) : Boot(now, slot)

----------------------------------------------------------------------------
(* The render and effect that follow setTransactions(next) *)

\* useMemo recomputes (its dependency changed), reading the clock twice; the
\* persist effect is scheduled
Rerender(next) ==
    \E d \in 0..1 :
        /\ elapsed + d <= MaxElapsed
        /\ transactions' = next
        /\ memo' = Aggregate(next, clock, clock + d)
        /\ clock' = clock + d
        /\ elapsed' = elapsed + d
        /\ pc' = "effect"

\* useEffect(..., [transactions]): setItem succeeds
PersistOk ==
    /\ pc = "effect"
    /\ storage' = Stringify(transactions)
    /\ lastWrite' = "ok"
    /\ pc' = "idle"
    /\ handled' = "none"
    /\ UNCHANGED <<clock, elapsed, transactions, productName, quantity, price, memo, nextId, failures>>

\* (mutation of PersistFail: the effect stays pending, to be run again)
PersistFailRetry ==
    /\ pc = "effect"
    /\ failures < MaxFailures
    /\ failures' = failures + 1
    /\ lastWrite' = "failed"
    /\ pc' = "effect"
    /\ handled' = "none"
    /\ UNCHANGED <<clock, elapsed, storage, transactions, productName, quantity, price, memo, nextId>>

\* useEffect(..., [transactions]): setItem throws, the catch logs
PersistFail ==
    /\ pc = "effect"
    /\ failures < MaxFailures
    /\ failures' = failures + 1
    /\ lastWrite' = "failed"
    /\ pc' = "idle"
    /\ handled' = "none"
    /\ UNCHANGED <<clock, elapsed, storage, transactions, productName, quantity, price, memo, nextId>>

----------------------------------------------------------------------------
(* The form *)

SetProductName(texts) ==
    /\ pc = "idle"
    /\ \E text \in texts : productName' = text
    /\ handled' = "none"
    /\ UNCHANGED <<clock, elapsed, storage, transactions, quantity, price, memo, nextId, pc, lastWrite, failures>>

OnChangeQuantity(text) ==
    IF text.k = "none" THEN EmptyStr ELSE MathMax(Num(MinQuantity), ParseInt(text))

SetQuantity(texts) ==
    /\ pc = "idle"
    /\ \E text \in texts : quantity' = OnChangeQuantity(text)
    /\ handled' = "none"
    /\ UNCHANGED <<clock, elapsed, storage, transactions, productName, price, memo, nextId, pc, lastWrite, failures>>

OnChangePrice(text) ==
    IF text.k = "none" THEN EmptyStr ELSE MathMax(Num(MinPrice), ParseInt(text))

SetPrice(texts) ==
    /\ pc = "idle"
    /\ \E text \in texts : price' = OnChangePrice(text)
    /\ handled' = "none"
    /\ UNCHANGED <<clock, elapsed, storage, transactions, productName, quantity, memo, nextId, pc, lastWrite, failures>>

----------------------------------------------------------------------------
(* The ledger commands *)

\* the condition of handleAddTransaction
AddAccepts(name, qty, prc) ==
    Truthy(Trim(name)) /\ GreaterThanZero(Number(qty)) /\ GreaterThanZero(Number(prc))

NewTransaction(id, name, qty, prc, now) ==
    [id |-> id,
     name |-> Trim(name),
     quantity |-> Number(qty).n,
     price |-> Number(prc).n,
     timestamp |-> now]

\* (mutation of AddResult: the new record appended)
AddResultAppended(items, tx) == items \o <<tx>>

AddResult(items, tx) == <<tx>> \o items

HandleAddTransaction ==
    /\ pc = "idle"
    /\ handled' = "submit"
    /\ IF AddAccepts(productName, quantity, price)
       THEN /\ nextId < MaxAdds
            /\ Rerender(Arr(AddResult(transactions.items,
                    NewTransaction(nextId + 1, productName, quantity, price, clock))))
            /\ nextId' = nextId + 1
            /\ productName' = <<>>
            /\ quantity' = Num(DefaultQuantity)
            /\ price' = EmptyStr
            /\ UNCHANGED <<storage, lastWrite, failures>>
       ELSE UNCHANGED <<clock, elapsed, storage, transactions, productName, quantity,
                        price, memo, nextId, pc, lastWrite, failures>>

\* the delete button of a listed transaction
HandleDeleteTransaction ==
    /\ pc = "idle"
    /\ \E i \in 1..Len(memo.transactionsToday) :
           Rerender(Arr(FilterNotId(transactions.items, memo.transactionsToday[i].id)))
    /\ handled' = "delete"
    /\ UNCHANGED <<storage, productName, quantity, price, nextId, lastWrite, failures>>

\* (mutation of ClearResult: the cutoff is the instant itself, not its midnight)
ClearResultFromNow(items, now) == FilterBefore(items, now)

ClearResult(items, now) == FilterBefore(items, StartOfDay(now))

\* the clear button, shown while transactions are listed
HandleClearAll ==
    /\ pc = "idle"
    /\ Len(memo.transactionsToday) > 0
    /\ \E confirmed \in BOOLEAN :
           IF confirmed
           THEN /\ Rerender(Arr(ClearResult(transactions.items, clock)))
                /\ handled' = "clear"
                /\ UNCHANGED <<storage, productName, quantity, price, nextId, lastWrite, failures>>
           ELSE /\ handled' = "clearDeclined"
                /\ UNCHANGED <<clock, elapsed, storage, transactions, productName,
                               quantity, price, memo, nextId, pc, lastWrite, failures>>

----------------------------------------------------------------------------
(* The wall clock *)

Tick ==
    /\ pc = "idle"
    /\ elapsed < MaxElapsed
    /\ clock' = clock + 1
    /\ elapsed' = elapsed + 1
    /\ handled' = "none"
    /\ UNCHANGED <<storage, transactions, productName, quantity, price, memo, nextId, pc, lastWrite, failures>>

Commands ==
    \/ PersistOk
    \/ PersistFail
    \/ HandleAddTransaction
    \/ HandleDeleteTransaction
    \/ HandleClearAll
    \/ Tick

Next ==
    \/ Commands
    \/ SetProductName(NameTexts)
    \/ SetQuantity(QuantityTexts)
    \/ SetPrice(PriceTexts)

Spec == Init /\ [][Next]_vars

FormNext ==
    \/ Commands
    \/ SetProductName(FormNameTexts)
    \/ SetQuantity(FormQuantityTexts)
    \/ SetPrice(FormPriceTexts)

FormSpec == FormInit /\ [][FormNext]_vars

----------------------------------------------------------------------------
(* Properties *)

\* the ledger as a set of records
Records(items) == {items[i] : i \in 1..Len(items)}

\* local midnight of the day of instant t
Midnight(t) == (t \div TicksPerDay) * TicksPerDay

\* a form field holding a number > 0
Positive(field) == field.k = "num" /\ field.n > 0

\* a form field that is unset or holds a number <= 0
NotPositive(field) == field.k = "empty" \/ (field.k = "num" /\ field.n <= 0)

\* the step is a submit of the form
SubmitStep == pc = "idle" /\ handled' = "submit"

\* C1: a submit whose name trims to non-empty, with quantity > 0 and price > 0,
\* grows the ledger by exactly one record, placed first: the trimmed name, the
\* given quantity and price, an id no earlier record has, and the current
\* instant; the earlier records follow it unchanged, in their order.
C1_AddPrepends ==
    [][(SubmitStep /\ Trim(productName) # <<>> /\ Positive(quantity) /\ Positive(price))
        => /\ Len(transactions'.items) = Len(transactions.items) + 1
           /\ Tail(transactions'.items) = transactions.items
           /\ LET new == Head(transactions'.items)
              IN /\ new.name = Trim(productName)
                 /\ new.quantity = quantity.n
                 /\ new.price = price.n
                 /\ new.timestamp = clock
                 /\ \A old \in Records(transactions.items) : old.id # new.id]_vars

\* a record with a trimmed name was just added in front of two earlier ones
C1_Witness ==
    /\ handled = "submit"
    /\ pc = "effect"
    /\ Len(transactions.items) = 3
    /\ Head(transactions.items).name = <<"a">>
    /\ Head(transactions.items).id # transactions.items[2].id

\* C2: a submit whose name trims to empty, or whose quantity or price is unset
\* or <= 0, leaves the ledger as it was: no record is created, nothing is
\* written and the component keeps running.
C2_InvalidAddRejected ==
    [][(SubmitStep /\ (Trim(productName) = <<>> \/ NotPositive(quantity) \/ NotPositive(price)))
        => /\ transactions' = transactions
           /\ nextId' = nextId
           /\ pc' = "idle"
           /\ UNCHANGED <<storage, memo, lastWrite, failures>>]_vars

\* a submit with a good name and quantity but price 0 was rejected
C2_Witness ==
    /\ handled = "submit"
    /\ pc = "idle"
    /\ Trim(productName) # <<>>
    /\ Positive(quantity)
    /\ price = Num(0)

\* the records of a ledger older than a cutoff, in their order
RECURSIVE OlderThan(_, _)
OlderThan(items, cutoff) ==
    IF items = <<>> THEN <<>>
    ELSE (IF Head(items).timestamp < cutoff THEN <<Head(items)>> ELSE <<>>)
         \o OlderThan(Tail(items), cutoff)

\* C3: a confirmed clear removes exactly the records at or after local midnight
\* of the instant it runs at, and keeps the older ones unchanged in their
\* order; a declined clear leaves the ledger as it was.
C3_ClearRemovesToday ==
    [][/\ (pc = "idle" /\ handled' = "clear")
            => transactions' = Arr(OlderThan(transactions.items, Midnight(clock)))
       /\ (pc = "idle" /\ handled' = "clearDeclined")
            => transactions' = transactions]_vars

\* a clear removed a record of today and kept an older one
C3_Witness ==
    /\ handled = "clear"
    /\ pc = "effect"
    /\ lastWrite = "ok"
    /\ Len(transactions.items) = 1
    /\ storage.doc.j = "array"
    /\ Len(storage.doc.elems) > 1

\* C4: once the write that followed the latest change of the ledger has
\* succeeded, loading the slot yields the ledger in memory: the same records
\* in the same order.
C4_PersistLoadRoundTrip ==
    (pc = "idle" /\ lastWrite = "ok") => Load(storage) = transactions

\* a write failed, a later one succeeded, and the ledger holds two records
C4_Witness ==
    /\ pc = "idle"
    /\ lastWrite = "ok"
    /\ failures > 0
    /\ Len(transactions.items) >= 2

\* C5: a failed write leaves the ledger in memory and the slot as they were
\* before it, schedules no further write and does not stop the component; the
\* slot is written only by a pending effect, and an effect becomes pending only
\* when a command changed the ledger.
C5_WriteFailureStands ==
    [][/\ failures' > failures
            => /\ transactions' = transactions
               /\ storage' = storage
               /\ memo' = memo
               /\ pc' = "idle"
       /\ storage' # storage => pc = "effect"
       /\ (pc' = "effect" /\ pc # "effect") => handled' \in {"submit", "delete", "clear"}]_vars

\* after a failed write the ledger holds a record the slot does not
C5_Witness ==
    /\ pc = "idle"
    /\ lastWrite = "failed"
    /\ Len(transactions.items) > 0
    /\ Load(storage) # transactions

\* what the claim calls an absent or malformed slot
Malformed(slot) ==
    \/ slot.k = "absent"
    \/ slot.body \in {"empty", "garbage"}
    \/ slot.doc.j # "array"
    \/ \E i \in 1..Len(slot.doc.elems) : slot.doc.elems[i].j # "object"

\* C6: at startup an absent or malformed slot yields the empty ledger and the
\* component renders.
C6_MalformedLoadsEmpty ==
    (handled = "mount" /\ Malformed(storage))
        => (transactions = Arr(<<>>) /\ pc # "crashed")

\* C7: the listed transactions of today are among those of the week, the sales
\* of today do not exceed those of the week, and the two lists are exactly the
\* ledger records at or after the start of today and the start of the week.
C7_DailyWithinWeekly ==
    memo.rendered
        => /\ Records(memo.transactionsToday) \subseteq Records(memo.weeklyTransactions)
           /\ memo.totalSalesToday <= memo.totalSalesThisWeek
           /\ Records(memo.transactionsToday) =
                  {r \in Records(transactions.items) : r.timestamp >= memo.startOfToday}
           /\ Records(memo.weeklyTransactions) =
                  {r \in Records(transactions.items) : r.timestamp >= memo.startOfWeek}

\* the ledger holds records of today, of earlier this week, and of before
C7_Witness ==
    /\ memo.rendered
    /\ Len(memo.transactionsToday) > 0
    /\ Len(memo.weeklyTransactions) > Len(memo.transactionsToday)
    /\ Len(transactions.items) > Len(memo.weeklyTransactions)
    /\ memo.totalSalesToday < memo.totalSalesThisWeek

\* C8: the warning shows iff the aggregation ran on a Thursday and the sales of
\* the week are below 9,000,000.
C8_WarningOnThursdayBelowTarget ==
    memo.rendered
        => (memo.showWarning <=>
               (((memo.now \div TicksPerDay) + 4) % 7 = 4 /\ memo.totalSalesThisWeek < 9000000))

\* a Thursday on which the sales of the week are exactly 9,000,000: no warning
C8_Witness ==
    /\ memo.rendered
    /\ memo.todayDay = 4
    /\ memo.totalSalesThisWeek = 9000000
    /\ ~memo.showWarning

\* C9: the exposed aggregates are those of the current ledger at the current
\* instant of the wall clock.
C9_AggregatesFollowClock ==
    memo.rendered
        => LET fresh == Aggregate(transactions, clock, clock)
           IN /\ memo.totalSalesToday = fresh.totalSalesToday
              /\ memo.totalItemsToday = fresh.totalItemsToday
              /\ memo.totalSalesThisWeek = fresh.totalSalesThisWeek
              /\ memo.showWarning = fresh.showWarning
              /\ memo.transactionsToday = fresh.transactionsToday

\* C10: for every weekday the offset lies in 0..6, is 0 exactly on Saturday,
\* and leads back to a Saturday; the start of the week is midnight of the most
\* recent Saturday and is not after the start of today.
C10_WeekStartsOnSaturday ==
    /\ \A d \in 0..6 : /\ Offset(d) \in 0..6
                       /\ Offset(d) = 0 <=> d = 6
                       /\ (d - Offset(d)) % 7 = 6
    /\ memo.rendered
        => /\ memo.todayDay = ((memo.now \div TicksPerDay) + 4) % 7
           /\ memo.offset = Offset(memo.todayDay)
           /\ memo.startOfWeek = Midnight(memo.now) - memo.offset * TicksPerDay
           /\ ((memo.startOfWeek \div TicksPerDay) + 4) % 7 = 6
           /\ Midnight(memo.now) - memo.startOfWeek < 7 * TicksPerDay
           /\ memo.startOfWeek <= memo.startOfToday

\* a Friday: the week started six days before
C10_Witness ==
    /\ memo.rendered
    /\ memo.todayDay = 5
    /\ memo.offset = 6
    /\ memo.startOfToday - memo.startOfWeek = 6 * TicksPerDay

====
